---- MODULE Spec2Model ----
(***************************************************************************)
(* Website monitor: the Retriever (windowed statistics and the alert       *)
(* state machine, retriever.py) and the self re-arming timers of App       *)
(* (main.py).                                                              *)
(*                                                                         *)
(* Conventions.  A Python value that may be None is a tuple: <<>> is None  *)
(* and <<v>> is the value v.  A float that is a quotient of two counts is  *)
(* the reduced fraction <<num, den>>; float('inf') is <<1, 0>>.  Time is   *)
(* counted in minutes.                                                     *)
(***************************************************************************)
EXTENDS Integers, Sequences, FiniteSets, TLC

VARIABLES
    now,          \* the clock of the store and of datetime.utcnow(), in minutes
    store,        \* measurement website_availability: host -> records, in time order
    alerts,       \* measurement website_alerts: the points written, in order
    started,      \* App.run has been executed
    retrievers,   \* App.retrievers: website -> alertData of its Retriever
    order,        \* enumeration order of the dicts App.monitors / App.retrievers
    probes,       \* per website: pending Timers of __getResults and firings in monitor.get
    reportTimer,  \* args of the pending Timer of __printResults: <<countdown>>, <<>> if none
    reports,      \* the running firings of __printResults, oldest first
    ticks,        \* report firings since the last one with printMinuteCheck (or since start)
    returned      \* what a direct call of a Retriever method returned, <<>> if none was made

vars == <<now, store, alerts, started, retrievers, order, probes, reportTimer, reports, ticks,
          returned>>

-----------------------------------------------------------------------------
(* Bounds of the exploration *)

MaxEvents == 2         \* clock ticks, probe records written and report firings started
                       \* while another one is in progress, together
MaxLoad == 2           \* websites the report firings in progress go through, together
MaxProbeThreads == 2   \* firings of one website's probe task in progress at the same time
MaxLen == 2            \* records of the store a direct call of getStats is tried on

Websites == {"a", "b"}

(* The configurations run() may load: website URLs in file order. *)
Configs == {<<"a", "b">>, <<"a">>}

(* The budget of the exploration under fairness. *)
FairEvents == 1
FairLoad == 2
FairProbeThreads == 1
FairConfigs == {<<"a", "b">>}

None == <<>>
Some(v) == <<v>>
Zero == <<0, 1>>
Inf == <<1, 0>>

-----------------------------------------------------------------------------
(* Arithmetic helpers *)

(* The greatest common divisor of a >= 0 and b > 0. *)
Gcd(a, b) ==
    LET divisors == {d \in 1..b : a % d = 0 /\ b % d = 0}
    IN  CHOOSE d \in divisors : \A e \in divisors : e <= d

(* The float n / d for counts n >= 0, d > 0. *)
Div(n, d) == <<n \div Gcd(n, d), d \div Gcd(n, d)>>

(* x < y, x > y and x >= y on floats <<num, den>> with den > 0. *)
Less(x, y) == x[1] * y[2] < y[1] * x[2]

Greater(x, y) == Less(y, x)

GreaterEq(x, y) == ~Less(x, y)

(* sum(s), min(s) and max(s) of a list of numbers; min and max of a list   *)
(* that is not empty.                                                      *)
SumSeq(s) ==
    LET sum[n \in 0..Len(s)] == IF n = 0 THEN 0 ELSE s[n] + sum[n - 1]
    IN  sum[Len(s)]

MinSeq(s) == CHOOSE m \in {s[j] : j \in 1..Len(s)} : \A j \in 1..Len(s) : m <= s[j]

MaxSeq(s) == CHOOSE m \in {s[j] : j \in 1..Len(s)} : \A j \in 1..Len(s) : m >= s[j]

(* collections.Counter(list): value -> number of occurrences. *)
Counter(s) ==
    [v \in {s[j] : j \in 1..Len(s)} |-> Cardinality({j \in 1..Len(s) : s[j] = v})]

(* Counter[key], which is 0 for a missing key. *)
CounterGet(c, key) == IF key \in DOMAIN c THEN c[key] ELSE 0

(* sum(Counter.values()) *)
CounterSum(c) ==
    LET sum[keys \in SUBSET DOMAIN c] ==
            IF keys = {} THEN 0
            ELSE LET k == CHOOSE x \in keys : TRUE IN c[k] + sum[keys \ {k}]
    IN  sum[DOMAIN c]

(* [elt[column] for elt in values] *)
Column(values, column) == [j \in 1..Len(values) |-> values[j][column]]

(* [v for v in s if v is not None] *)
NotNone(s) == SelectSeq(s, LAMBDA v : v # None)

(* The numbers of a list of values that are not None. *)
Numbers(s) == [j \in 1..Len(s) |-> s[j][1]]

-----------------------------------------------------------------------------
(* The store *)

(* "SELECT ... FROM website_availability WHERE time > now() - {m}m AND    *)
(* host = '{URL}'": the values of the only series, <<>> when the raw      *)
(* result has no 'series' key.                                            *)
Query(st, t, URL, minutes) ==
    SelectSeq(st[URL], LAMBDA r : r.time > t - minutes)

HasSeries(values) == values # <<>>

-----------------------------------------------------------------------------
(* Retriever.getStats: the computation on the values of the query.        *)
(* The result is <<"ok", found, stats>> or <<"fault", exception>>.        *)

Threshold == <<8, 10>>

(* A Counter of the availabilities that counts the None ones too. *)
availablesWithNone(values) == Counter(Column(values, "available"))

(* Line 67: the Counter of the availabilities that are not None. *)
availablesOf(values) == Counter(NotNone(Column(values, "available")))

getStatsOf(values) ==
    IF ~HasSeries(values) THEN <<"ok", FALSE, <<>>>>
    ELSE
    LET availables == availablesOf(values)
        responseTimes == Numbers(NotNone(Column(values, "responseTime")))
        statusCodes == Counter(Column(values, "status"))
        nRT == Len(responseTimes)
        minRT == IF nRT = 0 THEN Inf ELSE <<MinSeq(responseTimes), 1>>
        maxRT == IF nRT = 0 THEN Inf ELSE <<MaxSeq(responseTimes), 1>>
        avgRT == IF nRT = 0 THEN Inf ELSE Div(SumSeq(responseTimes), nRT)
        n == CounterSum(availables)
    IN  IF n = 0 THEN <<"fault", "ZeroDivisionError">>
        ELSE <<"ok", TRUE,
               [availability |-> Div(CounterGet(availables, Some(TRUE)), n),
                statusCodes |-> statusCodes,
                avgRT |-> avgRT,
                minRT |-> minRT,
                maxRT |-> maxRT]>>

getStats(st, t, URL, minutes) == getStatsOf(Query(st, t, URL, minutes))

-----------------------------------------------------------------------------
(* Retriever.checkAlert *)

(* Lines 116-119: the availability over the values of the 2 minute query. *)
(* Every value is counted, the None ones too.                             *)
checkAlertAvailability(values) ==
    LET availables == Counter(Column(values, "available"))
        n == CounterSum(availables)
    IN  Div(CounterGet(availables, Some(TRUE)), n)

(* Retriever.__init__: the alert data of a new Retriever. *)
NewAlertData(t) == [alertStatus |-> FALSE, alertNumber |-> 0, alertTime |-> t]

(* The point passed to write_points.  strftime('%Y-%m-%dT%H:%M:%SZ') drops *)
(* the microseconds, which the minute clock does not have.                 *)
AlertPoint(URL, currentDate, type, availability) ==
    [measurement |-> "website_alerts", host |-> URL, time |-> currentDate,
     type |-> type, availability |-> availability]

Notification(type, URL, availability, alertTime, alertNumber) ==
    [type |-> type, URL |-> URL, availability |-> availability,
     alertTime |-> alertTime, alertNumber |-> ToString(alertNumber)]

(* { "type": None }; the type is kept a string, like the other types. *)
NoNotification == [type |-> "None"]

(* Line 122 and line 157: the two conditions on the availability. *)
HasRecovered(alertData, availability) ==
    alertData.alertStatus /\ GreaterEq(availability, Threshold)

IsNowDown(alertData, availability) ==
    ~alertData.alertStatus /\ Less(availability, Threshold)

(* A recovery that leaves the status as it is. *)
StayAlerting(alertData) == alertData

(* Line 138: the alert data after a recovery. *)
Recover(alertData) == [alertData EXCEPT !.alertStatus = FALSE]

(* An alert that advances the number by two. *)
RaiseAlertTwice(alertData, currentDate) ==
    [alertStatus |-> TRUE,
     alertNumber |-> alertData.alertNumber + 2,
     alertTime |-> currentDate]

(* An alert that keeps the time of the alert before it. *)
RaiseAlertKeepingTime(alertData, currentDate) ==
    [alertStatus |-> TRUE,
     alertNumber |-> alertData.alertNumber + 1,
     alertTime |-> alertData.alertTime]

(* Lines 173-175: the alert data of a new alert. *)
RaiseAlert(alertData, currentDate) ==
    [alertStatus |-> TRUE,
     alertNumber |-> alertData.alertNumber + 1,
     alertTime |-> currentDate]

(* A recovery stored with the type of an alert. *)
RecoveryPointAsAlert(URL, currentDate, availability) ==
    AlertPoint(URL, currentDate, "alert", availability)

(* Lines 125-137: the point of a recovery. *)
RecoveryPoint(URL, currentDate, availability) ==
    AlertPoint(URL, currentDate, "recovery", availability)

(* Lines 120-186: the new alert data, the point to write (None if none)   *)
(* and the dictionary returned.                                           *)
checkAlertDecide(alertData, URL, availability, currentDate) ==
    IF HasRecovered(alertData, availability) THEN
        [alertData |-> Recover(alertData),
         write |-> Some(RecoveryPoint(URL, currentDate, availability)),
         ret |-> Notification("recovery", URL, availability, currentDate,
                              alertData.alertNumber)]
    ELSE IF alertData.alertStatus THEN
        [alertData |-> alertData,
         write |-> None,
         ret |-> Notification("alert", URL, availability, alertData.alertTime,
                              alertData.alertNumber)]
    ELSE IF IsNowDown(alertData, availability) THEN
        [alertData |-> RaiseAlert(alertData, currentDate),
         write |-> Some(AlertPoint(URL, currentDate, "alert", availability)),
         ret |-> Notification("alert", URL, availability,
                              RaiseAlert(alertData, currentDate).alertTime,
                              RaiseAlert(alertData, currentDate).alertNumber)]
    ELSE
        [alertData |-> alertData, write |-> None, ret |-> NoNotification]

-----------------------------------------------------------------------------
(* App: the timers *)

InitialCountdown == 5
ResetCountdown == 5

(* Lines 87-93 of __printResults: printMinuteCheck and the countdown      *)
(* handed to the next firing.                                             *)
printMinuteCheckOf(countdownToNextMinute) == countdownToNextMinute = 0

(* A countdown that restarts one short. *)
NextCountdownShort(countdownToNextMinute) ==
    IF countdownToNextMinute = 0 THEN ResetCountdown - 1
    ELSE countdownToNextMinute - 1

NextCountdown(countdownToNextMinute) ==
    IF countdownToNextMinute = 0 THEN ResetCountdown
    ELSE countdownToNextMinute - 1

(* A firing of __printResults that has just armed the next Timer and      *)
(* built the header of resString.                                         *)
NewFiring(countdownToNextMinute, nTargets) ==
    [printMinuteCheck |-> printMinuteCheckOf(countdownToNextMinute),
     i |-> 1,
     pc |-> IF nTargets = 0 THEN "print" ELSE "checkAlert",
     availability |-> None,
     alertStatus |-> None,
     availableStats2m |-> None,
     resString |-> <<>>,
     calls |-> <<>>,
     err |-> ""]

Call(op, URL, arg) == [op |-> op, URL |-> URL, arg |-> arg]

(* The firing dies with an uncaught exception. *)
Raise(th, exception) == [th EXCEPT !.pc = "fault", !.err = exception]

(* Lines 105-113: the section of one website, then the next website of    *)
(* the loop (or the print after the last one).  formatStats and           *)
(* formatAlert render to the console: a section keeps the windows handed  *)
(* to formatStats and the type of the notification handed to formatAlert. *)
Section(th, URL, availableStats1h, nTargets) ==
    LET sec == IF th.availableStats2m[1]
               THEN [kind |-> "stats", URL |-> URL,
                     windows |-> IF th.printMinuteCheck /\ availableStats1h
                                 THEN <<2, 10, 60>> ELSE <<2, 10>>,
                     alert |-> th.alertStatus[1].type]
               ELSE [kind |-> "nodata", URL |-> URL]
    IN  [th EXCEPT !.resString = Append(@, sec),
                   !.i = @ + 1,
                   !.pc = IF th.i = nTargets THEN "print" ELSE "checkAlert",
                   !.availability = None,
                   !.alertStatus = None,
                   !.availableStats2m = None]

-----------------------------------------------------------------------------
(* The initial state: App() has been constructed, run() not yet called.   *)
(* The database outlives the process: it may hold records of earlier runs.*)

Rec(t, available, status, responseTime) ==
    [time |-> t, available |-> available, status |-> status,
     responseTime |-> responseTime]

(* Records written a minute before the process started. *)
Up == Rec(-1, Some(TRUE), Some(200), Some(1))
Down == Rec(-1, Some(FALSE), Some(500), Some(3))
Blank == Rec(-1, None, None, None)

InitialStores ==
    {[w \in Websites |-> <<>>],
     [w \in Websites |-> IF w = "a" THEN <<Up, Up, Up, Down>> ELSE <<Blank>>]}

Init ==
    /\ now = 0
    /\ store \in InitialStores
    /\ alerts = <<>>
    /\ started = FALSE
    /\ retrievers = <<>>
    /\ order = <<>>
    /\ probes = [w \in Websites |-> [armed |-> 0, running |-> 0]]
    /\ reportTimer = None
    /\ reports = <<>>
    /\ ticks = 0
    /\ returned = <<>>

-----------------------------------------------------------------------------
(* App.run: one Retriever per configured website, the report Timer, one   *)
(* probe Timer per website.                                               *)
Run(websites) ==
    /\ ~started
    /\ started' = TRUE
    /\ order' = websites
    /\ retrievers' = [w \in {websites[j] : j \in 1..Len(websites)} |-> NewAlertData(now)]
    /\ reportTimer' = Some(InitialCountdown)
    /\ probes' = [w \in Websites |->
                    IF w \in {websites[j] : j \in 1..Len(websites)}
                    THEN [armed |-> 1, running |-> 0] ELSE probes[w]]
    /\ UNCHANGED <<now, store, alerts, reports, ticks, returned>>

(* Records the probes of this process have written, and the events of    *)
(* the environment so far: minutes passed and records written.            *)
Written(w) == Len(SelectSeq(store[w], LAMBDA r : r.time >= 0))

EnvEvents == now + Written("a") + Written("b")

Overlaps == IF Len(reports) > 1 THEN Len(reports) - 1 ELSE 0

Events == EnvEvents + Overlaps

(* Time passes. *)
Tick ==
    /\ now' = now + 1
    /\ UNCHANGED <<store, alerts, started, retrievers, order, probes, reportTimer,
                   reports, ticks, returned>>

-----------------------------------------------------------------------------
(* The probe task of a website *)

(* What monitor.get() writes: one record of the probe. *)
ProbeOutcomes ==
    {[available |-> Some(TRUE), status |-> Some(200), responseTime |-> Some(1)],
     [available |-> Some(FALSE), status |-> None, responseTime |-> None]}

(* A firing that starts no new Timer. *)
NotRearmed(armed) == armed - 1

(* The Timers pending after lines 81-82 of a firing of __getResults: the  *)
(* one that fired is gone, a new one is started.                          *)
ArmedAfterGetResults(armed) == armed - 1 + 1

(* A Timer of __getResults fires: lines 81-83, up to the call of          *)
(* monitor.get().                                                         *)
GetResults(w) ==
    /\ probes[w].armed > 0
    /\ probes' = [probes EXCEPT ![w] = [armed |-> ArmedAfterGetResults(@.armed),
                                        running |-> @.running + 1]]
    /\ UNCHANGED <<now, store, alerts, started, retrievers, order, reportTimer,
                   reports, ticks, returned>>

(* monitor.get() ends and the firing with it: it has written its record   *)
(* (if the exploration may still add one), or it has failed.              *)
MonitorGet(w, mayWrite) ==
    /\ probes[w].running > 0
    /\ probes' = [probes EXCEPT ![w].running = @ - 1]
    /\ \/ /\ mayWrite
          /\ \E o \in ProbeOutcomes :
               store' = [store EXCEPT ![w] =
                           Append(@, Rec(now, o.available, o.status, o.responseTime))]
       \/ store' = store
    /\ UNCHANGED <<now, alerts, started, retrievers, order, reportTimer, reports, ticks, returned>>

-----------------------------------------------------------------------------
(* The report task *)

(* The Timer of __printResults fires: lines 87-98. *)
printResults ==
    /\ reportTimer # None
    /\ LET countdownToNextMinute == reportTimer[1] IN
         /\ reportTimer' = Some(NextCountdown(countdownToNextMinute))
         /\ reports' = Append(reports, NewFiring(countdownToNextMinute, Len(order)))
         /\ ticks' = IF printMinuteCheckOf(countdownToNextMinute) THEN 0 ELSE ticks + 1
    /\ UNCHANGED <<now, store, alerts, started, retrievers, order, probes, returned>>

(* Line 116 to 119 of checkAlert, called at line 100. *)
CheckAlertQuery(k) ==
    LET th == reports[k]
        URL == order[th.i]
        values == Query(store, now, URL, 2)
        th1 == [th EXCEPT !.calls = Append(@, Call("checkAlert", URL, 2))]
    IN  /\ th.pc = "checkAlert"
        /\ reports' = [reports EXCEPT ![k] =
                         IF ~HasSeries(values) THEN Raise(th1, "KeyError")
                         ELSE [th1 EXCEPT !.pc = "decide",
                                          !.availability =
                                              Some(checkAlertAvailability(values))]]
        /\ UNCHANGED <<now, store, alerts, started, retrievers, order, probes,
                       reportTimer, ticks, returned>>

(* An assignment to self.alertData that reaches every Retriever. *)
SetAlertDataOfAll(rs, URL, alertData) == [w \in DOMAIN rs |-> alertData]

(* self.alertData[...] = ...: the alert data of the Retriever of URL, an  *)
(* attribute of the instance (retriever.py:29).                           *)
SetAlertData(rs, URL, alertData) == [rs EXCEPT ![URL] = alertData]

(* A failed write that undoes the assignments made before it. *)
RolledBack(before, after) == before

(* write_points raises at line 139 or 176: the assignments of line 138 or  *)
(* of lines 173-175 have been made, and nothing undoes them.               *)
AfterFailedWrite(before, after) == after

(* Lines 120 to 186 of checkAlert; write_points may fail. *)
CheckAlertDecide(k) ==
    LET th == reports[k]
        URL == order[th.i]
        d == checkAlertDecide(retrievers[URL], URL, th.availability[1], now)
        th1 == IF d.write = None THEN th
               ELSE [th EXCEPT !.calls = Append(@, Call("write_points", URL, d.write[1].type))]
    IN  /\ th.pc = "decide"
        /\ \/ /\ retrievers' = SetAlertData(retrievers, URL, d.alertData)
              /\ alerts' = IF d.write = None THEN alerts ELSE Append(alerts, d.write[1])
              /\ reports' = [reports EXCEPT ![k] =
                               [th1 EXCEPT !.pc = "stats2m", !.alertStatus = Some(d.ret)]]
           \/ /\ d.write # None
              /\ retrievers' = SetAlertData(retrievers, URL,
                                            AfterFailedWrite(retrievers[URL], d.alertData))
              /\ alerts' = alerts
              /\ reports' = [reports EXCEPT ![k] = Raise(th1, "WriteError")]
        /\ UNCHANGED <<now, store, started, order, probes, reportTimer, ticks, returned>>

(* Line 101: getStats(2). *)
GetStats2m(k) ==
    LET th == reports[k]
        URL == order[th.i]
        r == getStats(store, now, URL, 2)
        th1 == [th EXCEPT !.calls = Append(@, Call("getStats", URL, 2))]
    IN  /\ th.pc = "stats2m"
        /\ reports' = [reports EXCEPT ![k] =
                         IF r[1] = "fault" THEN Raise(th1, r[2])
                         ELSE [th1 EXCEPT !.pc = "stats10m",
                                          !.availableStats2m = Some(r[2])]]
        /\ UNCHANGED <<now, store, alerts, started, retrievers, order, probes,
                       reportTimer, ticks, returned>>

(* Line 102: getStats(10); without printMinuteCheck, lines 105-113 too. *)
GetStats10m(k) ==
    LET th == reports[k]
        URL == order[th.i]
        r == getStats(store, now, URL, 10)
        th1 == [th EXCEPT !.calls = Append(@, Call("getStats", URL, 10))]
    IN  /\ th.pc = "stats10m"
        /\ reports' = [reports EXCEPT ![k] =
                         IF r[1] = "fault" THEN Raise(th1, r[2])
                         ELSE IF th.printMinuteCheck THEN [th1 EXCEPT !.pc = "stats1h"]
                         ELSE Section(th1, URL, FALSE, Len(order))]
        /\ UNCHANGED <<now, store, alerts, started, retrievers, order, probes,
                       reportTimer, ticks, returned>>

(* Lines 103-104: getStats(60) when printMinuteCheck, then lines 105-113. *)
GetStats1h(k) ==
    LET th == reports[k]
        URL == order[th.i]
        r == getStats(store, now, URL, 60)
        th1 == [th EXCEPT !.calls = Append(@, Call("getStats", URL, 60))]
    IN  /\ th.pc = "stats1h"
        /\ reports' = [reports EXCEPT ![k] =
                         IF r[1] = "fault" THEN Raise(th1, r[2])
                         ELSE Section(th1, URL, r[2], Len(order))]
        /\ UNCHANGED <<now, store, alerts, started, retrievers, order, probes,
                       reportTimer, ticks, returned>>

Remove(s, k) == SubSeq(s, 1, k - 1) \o SubSeq(s, k + 1, Len(s))

(* Lines 114-115: the report is printed and the firing returns. *)
EmitReport(k) ==
    /\ reports[k].pc = "print"
    /\ reports' = Remove(reports, k)
    /\ UNCHANGED <<now, store, alerts, started, retrievers, order, probes,
                   reportTimer, ticks, returned>>

(* An exception nothing catches ends the thread of the firing: the loop   *)
(* of line 99 is left and line 114 is not reached.                        *)
ThreadExcept(k) ==
    /\ reports[k].pc = "fault"
    /\ reports' = Remove(reports, k)
    /\ UNCHANGED <<now, store, alerts, started, retrievers, order, probes,
                   reportTimer, ticks, returned>>

-----------------------------------------------------------------------------
(* The steps within a budget of the exploration: the configurations, the  *)
(* events, the load of the report firings in progress and the firings of   *)
(* a probe task in progress.                                               *)
BoundedRun(b) == \E websites \in b.configs : Run(websites)

BoundedTick(b) == Events < b.events /\ Tick

BoundedGetResults(b, w) == probes[w].running < b.probeThreads /\ GetResults(w)

BoundedMonitorGet(b, w) == MonitorGet(w, Events < b.events)

BoundedPrintResults(b) ==
    /\ (Len(reports) + 1) * Len(order) <= b.load
    /\ Len(reports) > 0 => Events < b.events
    /\ printResults

NextOf(b) ==
    \/ BoundedRun(b)
    \/ BoundedTick(b)
    \/ \E w \in Websites : BoundedGetResults(b, w)
    \/ \E w \in Websites : BoundedMonitorGet(b, w)
    \/ BoundedPrintResults(b)
    \/ \E k \in 1..Len(reports) : CheckAlertQuery(k)
    \/ \E k \in 1..Len(reports) : CheckAlertDecide(k)
    \/ \E k \in 1..Len(reports) : GetStats2m(k)
    \/ \E k \in 1..Len(reports) : GetStats10m(k)
    \/ \E k \in 1..Len(reports) : GetStats1h(k)
    \/ \E k \in 1..Len(reports) : EmitReport(k)
    \/ \E k \in 1..Len(reports) : ThreadExcept(k)

Budget == [configs |-> Configs, events |-> MaxEvents, load |-> MaxLoad,
           probeThreads |-> MaxProbeThreads]

Next == NextOf(Budget)

Spec == Init /\ [][Next]_vars

-----------------------------------------------------------------------------
(* The same system when the store accepts every write and a firing of the  *)
(* report task has ended before the next one begins: no two evaluations of *)
(* a website are in progress at the same time.                             *)

Serial ==
    /\ Len(reports) <= 1
    /\ \A k \in 1..Len(reports) : reports[k].err # "WriteError"

NextSerial ==
    \/ BoundedRun(Budget) /\ Serial'
    \/ BoundedTick(Budget) /\ Serial'
    \/ \E w \in Websites : BoundedGetResults(Budget, w) /\ Serial'
    \/ \E w \in Websites : BoundedMonitorGet(Budget, w) /\ Serial'
    \/ BoundedPrintResults(Budget) /\ Serial'
    \/ \E k \in 1..Len(reports) : CheckAlertQuery(k) /\ Serial'
    \/ \E k \in 1..Len(reports) : CheckAlertDecide(k) /\ Serial'
    \/ \E k \in 1..Len(reports) : GetStats2m(k) /\ Serial'
    \/ \E k \in 1..Len(reports) : GetStats10m(k) /\ Serial'
    \/ \E k \in 1..Len(reports) : GetStats1h(k) /\ Serial'
    \/ \E k \in 1..Len(reports) : EmitReport(k) /\ Serial'
    \/ \E k \in 1..Len(reports) : ThreadExcept(k) /\ Serial'

SerialSpec == Init /\ [][NextSerial]_vars

-----------------------------------------------------------------------------
(* The same system under fairness, within a smaller budget. *)

FairBudget == [configs |-> FairConfigs, events |-> FairEvents, load |-> FairLoad,
               probeThreads |-> FairProbeThreads]

NextFair == NextOf(FairBudget)

(* A step of the oldest report firing in progress. *)
OldestFiringStep ==
    /\ reports # <<>>
    /\ \/ CheckAlertQuery(1)
       \/ CheckAlertDecide(1)
       \/ GetStats2m(1)
       \/ GetStats10m(1)
       \/ GetStats1h(1)
       \/ EmitReport(1)
       \/ ThreadExcept(1)

(* run() is called, a Timer that is due fires, and a call that was begun   *)
(* ends, by a result or by an exception: a firing may be slow, it does not *)
(* hang for ever.  A firing in progress always has a step to take, so that *)
(* ENABLED <<OldestFiringStep>>_vars is reports # <<>>, and the last       *)
(* conjunct is WF_vars(OldestFiringStep) written out.                      *)
Fairness ==
    /\ WF_vars(BoundedRun(FairBudget))
    /\ WF_vars(BoundedPrintResults(FairBudget))
    /\ \A w \in Websites : WF_vars(BoundedGetResults(FairBudget, w))
    /\ \A w \in Websites : WF_vars(BoundedMonitorGet(FairBudget, w))
    /\ []<>(reports = <<>>) \/ []<><<OldestFiringStep>>_vars

FairSpec == Init /\ [][NextFair]_vars /\ Fairness

-----------------------------------------------------------------------------
(* The Retriever on its own: getStats called directly on a Retriever of    *)
(* website "a", over every small content of the store.                     *)

Windows == {2, 10, 60}

(* Records at minute 59, 55, 30 and 0, read at minute 60: in every window, *)
(* in the 10 and 60 minute windows, in the 60 minute window, in none.      *)
StatsRecords ==
    {Rec(t, available, status, responseTime) :
        t \in {0, 30, 55, 59},
        available \in {Some(TRUE), Some(FALSE), None},
        status \in {Some(200), None},
        responseTime \in {Some(1), Some(3), None}}

StatsStores ==
    {s \in UNION {[1..n -> StatsRecords] : n \in 0..MaxLen} :
        \A j \in 1..(Len(s) - 1) : s[j].time <= s[j + 1].time}

InitStats ==
    /\ now = 60
    /\ \E s \in StatsStores : store = [w \in Websites |-> IF w = "a" THEN s ELSE <<>>]
    /\ alerts = <<>>
    /\ started = FALSE
    /\ retrievers = [w \in {"a"} |-> NewAlertData(now)]
    /\ order = <<>>
    /\ probes = [w \in Websites |-> [armed |-> 0, running |-> 0]]
    /\ reportTimer = None
    /\ reports = <<>>
    /\ ticks = 0
    /\ returned = <<>>

(* A getStats that starts the alert data of its Retriever afresh. *)
CallGetStatsResetting(URL, minutes) ==
    /\ returned' = [method |-> "getStats", URL |-> URL, minutes |-> minutes,
                    value |-> getStats(store, now, URL, minutes)]
    /\ retrievers' = SetAlertData(retrievers, URL, NewAlertData(now))
    /\ UNCHANGED <<now, store, alerts, started, order, probes, reportTimer, reports, ticks>>

(* retriever.getStats(minutes) *)
CallGetStats(URL, minutes) ==
    /\ returned' = [method |-> "getStats", URL |-> URL, minutes |-> minutes,
                    value |-> getStats(store, now, URL, minutes)]
    /\ UNCHANGED <<now, store, alerts, started, retrievers, order, probes, reportTimer,
                   reports, ticks>>

(* retriever.checkAlert(): lines 116-186 in one thread.  Beside the value  *)
(* returned (or the exception raised), the availability of line 119 is     *)
(* kept.                                                                   *)
CallCheckAlert(URL) ==
    LET values == Query(store, now, URL, 2)
        availability == checkAlertAvailability(values)
        d == checkAlertDecide(retrievers[URL], URL, availability, now)
        Result(value, ratio) ==
            [method |-> "checkAlert", URL |-> URL, minutes |-> 2, value |-> value,
             availability |-> ratio]
    IN  /\ IF ~HasSeries(values)
           THEN /\ returned' = Result(<<"fault", "KeyError">>, None)
                /\ UNCHANGED <<retrievers, alerts>>
           ELSE \/ /\ retrievers' = SetAlertData(retrievers, URL, d.alertData)
                   /\ alerts' = IF d.write = None THEN alerts
                                 ELSE Append(alerts, d.write[1])
                   /\ returned' = Result(<<"ok", d.ret>>, Some(availability))
                \/ /\ d.write # None
                   /\ retrievers' = SetAlertData(retrievers, URL,
                                        AfterFailedWrite(retrievers[URL], d.alertData))
                   /\ alerts' = alerts
                   /\ returned' = Result(<<"fault", "WriteError">>, Some(availability))
        /\ UNCHANGED <<now, store, started, order, probes, reportTimer, reports, ticks>>

NextStats ==
    \/ \E URL \in DOMAIN retrievers : \E minutes \in Windows : CallGetStats(URL, minutes)
    \/ \E URL \in DOMAIN retrievers : CallCheckAlert(URL)

SpecStats == InitStats /\ [][NextStats]_vars

-----------------------------------------------------------------------------
(* Properties of the alert state machine *)

(* Firing k of __printResults runs lines 120-186 of checkAlert in this step. *)
DecideStep(k) ==
    /\ Len(reports') = Len(reports)
    /\ reports[k].pc = "decide"
    /\ reports'[k].pc # "decide"

(* The availability a/b is at least 0.8. *)
AtLeastFourFifths(availability) == 5 * availability[1] >= 4 * availability[2]

(* C1: every evaluation of checkAlert over a window with a record follows  *)
(* the transition table on the status before it and the availability it    *)
(* computed: Healthy and >= 0.8 stays Healthy with no notification,        *)
(* Healthy and < 0.8 becomes Alerting with an alert, Alerting and >= 0.8   *)
(* becomes Healthy with a recovery, Alerting and < 0.8 stays Alerting with *)
(* an alert; exactly 0.8 is healthy.  The status is the next status also   *)
(* when write_points fails; the notification is the one returned.          *)
TransitionTable ==
    [][\A k \in 1..Len(reports) : DecideStep(k) =>
         LET URL == order[reports[k].i]
             healthy == AtLeastFourFifths(reports[k].availability[1])
             current == retrievers[URL].alertStatus
             next == retrievers'[URL].alertStatus
             hasReturned == reports'[k].pc = "stats2m"
             kind == reports'[k].alertStatus[1].type
         IN  /\ (~current /\ healthy) => (~next /\ hasReturned /\ kind = "None")
             /\ (~current /\ ~healthy) => (next /\ (hasReturned => kind = "alert"))
             /\ (current /\ healthy) => (~next /\ (hasReturned => kind = "recovery"))
             /\ (current /\ ~healthy) => (next /\ hasReturned /\ kind = "alert")
             /\ ~hasReturned => reports'[k].err = "WriteError"]_vars

(* An evaluation in Alerting with an availability of exactly 0.8 has just  *)
(* returned a recovery.                                                    *)
RecoveryAtThreshold ==
    \E k \in 1..Len(reports) :
        /\ reports[k].pc = "stats2m"
        /\ reports[k].alertStatus[1].type = "recovery"
        /\ reports[k].availability[1] = <<4, 5>>
        /\ ~retrievers[order[reports[k].i]].alertStatus

(* C2: the alert number of a website starts at 0, never decreases, grows   *)
(* by exactly 1 in a step from Healthy to Alerting and is unchanged by     *)
(* every other step.                                                       *)
SequenceNumber ==
    [][/\ \A w \in DOMAIN retrievers' \ DOMAIN retrievers :
            retrievers'[w].alertNumber = 0
       /\ \A w \in DOMAIN retrievers :
            /\ w \in DOMAIN retrievers'
            /\ IF ~retrievers[w].alertStatus /\ retrievers'[w].alertStatus
               THEN retrievers'[w].alertNumber = retrievers[w].alertNumber + 1
               ELSE retrievers'[w].alertNumber = retrievers[w].alertNumber]_vars

(* A website is in its second alert. *)
SecondAlert ==
    \E w \in DOMAIN retrievers :
        retrievers[w].alertStatus /\ retrievers[w].alertNumber = 2

(* C3: checkAlert hands a point to the store exactly when the status       *)
(* changes: one point of type alert from Healthy to Alerting, one of type  *)
(* recovery from Alerting to Healthy, none when the status stays; the      *)
(* point is appended to website_alerts unless write_points fails, and no   *)
(* other step writes to website_alerts.                                    *)
EventOnTransition ==
    [][/\ \A k \in 1..Len(reports) : DecideStep(k) =>
            LET URL == order[reports[k].i]
                current == retrievers[URL].alertStatus
                next == retrievers'[URL].alertStatus
                type == IF next THEN "alert" ELSE "recovery"
                written == SubSeq(reports'[k].calls, Len(reports[k].calls) + 1,
                                  Len(reports'[k].calls))
            IN  IF current = next
                THEN written = <<>> /\ alerts' = alerts
                ELSE /\ written = <<Call("write_points", URL, type)>>
                     /\ \/ /\ Len(alerts') = Len(alerts) + 1
                           /\ SubSeq(alerts', 1, Len(alerts)) = alerts
                           /\ alerts'[Len(alerts')].type = type
                           /\ alerts'[Len(alerts')].host = URL
                        \/ /\ alerts' = alerts
                           /\ reports'[k].err = "WriteError"
       /\ alerts' # alerts => \E k \in 1..Len(reports) : DecideStep(k)]_vars

(* A recovery has been written after an alert. *)
RecoveryWritten ==
    /\ Len(alerts) = 2
    /\ alerts[1].type = "alert"
    /\ alerts[2].type = "recovery"
    /\ alerts[2].host = alerts[1].host

(* C12: when write_points fails in a transition, the transition has taken *)
(* place all the same: after the evaluation the status is the other one,   *)
(* with the alert number one more and the alert time the time of the       *)
(* evaluation after Healthy -> Alerting, and with both as they were after  *)
(* Alerting -> Healthy; the point is not in website_alerts.                *)
TransitionSurvivesFailedWrite ==
    [][\A k \in 1..Len(reports) :
         (DecideStep(k) /\ reports'[k].err = "WriteError") =>
            LET URL == order[reports[k].i]
                before == retrievers[URL]
                after == retrievers'[URL]
            IN  /\ after.alertStatus = ~before.alertStatus
                /\ after.alertStatus =>
                      /\ after.alertNumber = before.alertNumber + 1
                      /\ after.alertTime = now
                /\ ~after.alertStatus =>
                      /\ after.alertNumber = before.alertNumber
                      /\ after.alertTime = before.alertTime
                /\ alerts' = alerts]_vars

(* A website is Alerting with number 1 after the write of its alert failed: *)
(* the firing has died of the failure and no point has been stored.        *)
AlertingAfterFailedWrite ==
    \E k \in 1..Len(reports) :
        /\ reports[k].pc = "fault"
        /\ reports[k].err = "WriteError"
        /\ retrievers[order[reports[k].i]].alertStatus
        /\ retrievers[order[reports[k].i]].alertNumber = 1
        /\ alerts = <<>>

(* C15: the alert data of a website changes only in a step of its own      *)
(* checkAlert: a step that changes it is the evaluation of lines 120-186   *)
(* for that website, so that checkAlert of another website, getStats, and  *)
(* a probe with the record it writes leave it as it was.                   *)
AlertDataFrame ==
    [][\A w \in DOMAIN retrievers :
         retrievers'[w] # retrievers[w] =>
            \E k \in 1..Len(reports) : DecideStep(k) /\ order[reports[k].i] = w]_vars

(* Website "b" went into alert a minute after website "a", whose alert     *)
(* data is still that of its own alert.                                    *)
AlertsOfTwoWebsites ==
    /\ DOMAIN retrievers = {"a", "b"}
    /\ retrievers["a"] = [alertStatus |-> TRUE, alertNumber |-> 1, alertTime |-> 0]
    /\ retrievers["b"] = [alertStatus |-> TRUE, alertNumber |-> 1, alertTime |-> 1]

(* C16: the alert time of a website changes only in a step from Healthy to *)
(* Alerting, to the time of that step.  A notification of type alert       *)
(* carries that alert time, which an evaluation in Alerting leaves as it   *)
(* was; a notification of type recovery carries the time of the recovery,  *)
(* and the recovery leaves the alert time as it was; both carry the alert  *)
(* number of the website, as a string.                                     *)
NotificationTimes ==
    [][/\ \A w \in DOMAIN retrievers :
            retrievers'[w].alertTime # retrievers[w].alertTime =>
                /\ ~retrievers[w].alertStatus
                /\ retrievers'[w].alertStatus
                /\ retrievers'[w].alertTime = now
       /\ \A k \in 1..Len(reports) :
            (DecideStep(k) /\ reports'[k].pc = "stats2m") =>
                LET URL == order[reports[k].i]
                    before == retrievers[URL]
                    after == retrievers'[URL]
                    notification == reports'[k].alertStatus[1]
                IN  /\ notification.type = "alert" =>
                          /\ notification.alertTime = after.alertTime
                          /\ notification.alertNumber = ToString(after.alertNumber)
                          /\ before.alertStatus => after.alertTime = before.alertTime
                          /\ ~before.alertStatus => after.alertTime = now
                    /\ notification.type = "recovery" =>
                          /\ notification.alertTime = now
                          /\ notification.alertNumber = ToString(after.alertNumber)
                          /\ after.alertTime = before.alertTime]_vars

(* An evaluation in Alerting, which has written no point, has returned    *)
(* the alert with the time of its beginning, a minute or more ago.         *)
OngoingAlertNotified ==
    \E k \in 1..Len(reports) :
        /\ reports[k].pc = "stats2m"
        /\ reports[k].calls[Len(reports[k].calls)]
               = Call("checkAlert", order[reports[k].i], 2)
        /\ reports[k].alertStatus[1].type = "alert"
        /\ reports[k].alertStatus[1].alertTime < now
        /\ reports[k].alertStatus[1].alertTime
               = retrievers[order[reports[k].i]].alertTime

(* The points of website_alerts of a website, in the order written, and   *)
(* the number of them of a type.                                           *)
EventsOf(w) == SelectSeq(alerts, LAMBDA point : point.host = w)

NumberOf(w, type) == Len(SelectSeq(EventsOf(w), LAMBDA point : point.type = type))

-----------------------------------------------------------------------------
(* Properties of the timers *)

(* Firing k of __printResults is in checkAlert. *)
InCheckAlert(k) == reports[k].pc \in {"checkAlert", "decide"}

(* C4: no task overlaps with its own next instance: at most one firing of  *)
(* a website's probe task and at most one firing of the report task are in *)
(* progress, and no two evaluations of checkAlert of one website are.      *)
NoSelfOverlap ==
    /\ \A w \in Websites : probes[w].running <= 1
    /\ Len(reports) <= 1
    /\ \A j, k \in 1..Len(reports) :
         (j # k /\ InCheckAlert(j) /\ InCheckAlert(k)) =>
             order[reports[j].i] # order[reports[k].i]

(* Firing k of __printResults runs lines 116-119 of checkAlert in this step. *)
QueryStep(k) ==
    /\ Len(reports') = Len(reports)
    /\ reports[k].pc = "checkAlert"
    /\ reports'[k].pc # "checkAlert"

(* C5: for a website that was never probed (the store has no record of    *)
(* it), the evaluation of the alert by a report firing does not fault and  *)
(* leaves the alert data of every website as it was.                       *)
NeverProbedIsNoData ==
    [][\A k \in 1..Len(reports) :
         (QueryStep(k) /\ store[order[reports[k].i]] = <<>>) =>
             /\ reports'[k].pc # "fault"
             /\ retrievers' = retrievers]_vars

(* C6: a fault for one website is isolated: the firing that faulted has    *)
(* evaluated every other website and has built its section.                *)
FaultIsolated ==
    \A k \in 1..Len(reports) : reports[k].pc = "fault" =>
        \A j \in 1..Len(order) : j # reports[k].i =>
            /\ \E n \in 1..Len(reports[k].calls) :
                   reports[k].calls[n] = Call("checkAlert", order[j], 2)
            /\ \E n \in 1..Len(reports[k].resString) :
                   reports[k].resString[n].URL = order[j]

(* The report Timer fires in this step. *)
FiringStep == Len(reports') = Len(reports) + 1

(* C8 as stated: the firing that computes the 60 minute window is every    *)
(* fifth one: a firing has printMinuteCheck exactly when four firings      *)
(* without it came before, since the start or since the last one with it.  *)
EveryFifthFiring ==
    [][FiringStep => (reports'[Len(reports')].printMinuteCheck <=> ticks = 4)]_vars

(* C8 amended: the firing that computes the 60 minute window is every      *)
(* sixth one: a firing has printMinuteCheck exactly when five firings      *)
(* without it came before, since the start or since the last one with it,  *)
(* and only a firing with printMinuteCheck calls getStats(60).             *)
EverySixthFiring ==
    [][/\ FiringStep => (reports'[Len(reports')].printMinuteCheck <=> ticks = 5)
       /\ \A k \in 1..Len(reports) :
            (Len(reports') = Len(reports) /\ reports'[k].pc = "stats1h") =>
                reports[k].printMinuteCheck]_vars

(* A firing with printMinuteCheck is about to call getStats(60). *)
LongWindowFiring ==
    \E k \in 1..Len(reports) :
        reports[k].printMinuteCheck /\ reports[k].pc = "stats1h" /\ ticks = 0

(* The calls a firing makes on the Retrievers when it evaluates every      *)
(* website once, in the order of the enumeration.                          *)
CallsOfAllWebsites(printMinuteCheck) ==
    LET calls[n \in 0..Len(order)] ==
            IF n = 0 THEN <<>>
            ELSE calls[n - 1]
                 \o <<Call("checkAlert", order[n], 2),
                      Call("getStats", order[n], 2),
                      Call("getStats", order[n], 10)>>
                 \o (IF printMinuteCheck THEN <<Call("getStats", order[n], 60)>>
                     ELSE <<>>)
    IN  calls[Len(order)]

(* The calls of checkAlert and getStats a firing has made. *)
RetrieverCalls(th) == SelectSeq(th.calls, LAMBDA c : c.op # "write_points")

(* C17: a firing of the report task that has ended has called, for every   *)
(* configured website in the order of the enumeration, checkAlert once,    *)
(* getStats(2) once and getStats(10) once, and getStats(60) once exactly   *)
(* when it is a firing with printMinuteCheck.                              *)
EveryWebsiteEvaluatedOnce ==
    \A k \in 1..Len(reports) :
        reports[k].pc \in {"print", "fault"} =>
            RetrieverCalls(reports[k]) = CallsOfAllWebsites(reports[k].printMinuteCheck)

(* C9: a firing of a probe task triggers one probe, and the next firing is *)
(* scheduled only once that probe has completed: while monitor.get() runs, *)
(* no Timer of the task is pending.                                        *)
RearmAfterProbe ==
    \A w \in Websites : probes[w].running > 0 => probes[w].armed = 0

-----------------------------------------------------------------------------
(* Properties of getStats *)

(* The records of the store that the query of the call reads. *)
InWindow(call) ==
    {j \in 1..Len(store[call.URL]) : now - store[call.URL][j].time < call.minutes}

(* C10: getStats returns found = False when the window holds no record,    *)
(* and found = True with an availability between 0 and 1 when it holds at  *)
(* least one, whatever the fields of the records; it never faults.         *)
FoundIffRecords ==
    (returned # <<>> /\ returned.method = "getStats") =>
        /\ returned.value[1] = "ok"
        /\ returned.value[2] = (InWindow(returned) # {})
        /\ returned.value[2] =>
             LET availability == returned.value[3].availability
             IN  /\ availability[2] > 0
                 /\ 0 <= availability[1]
                 /\ availability[1] <= availability[2]

(* The records of the window of the call whose available field is v. *)
WithAvailable(call, v) ==
    {j \in InWindow(call) : store[call.URL][j].available = v}

(* C11: the availability that getStats returns is the number of records of *)
(* the window with available = True over the number of those with          *)
(* available = True or False, and the same call on the store with one more *)
(* record of the window whose available is None returns the same           *)
(* availability.                                                           *)
AvailabilityRatio ==
    (returned # <<>> /\ returned.method = "getStats"
        /\ returned.value[1] = "ok" /\ returned.value[2]) =>
        LET availability == returned.value[3].availability
            up == Cardinality(WithAvailable(returned, Some(TRUE)))
            down == Cardinality(WithAvailable(returned, Some(FALSE)))
        IN  /\ up + down > 0
            /\ availability = Div(up, up + down)
            /\ \A status \in {Some(200), None}, responseTime \in {Some(1), None} :
                 LET more == [store EXCEPT ![returned.URL] =
                                 Append(@, Rec(now, None, status, responseTime))]
                     again == getStats(more, now, returned.URL, returned.minutes)
                 IN  /\ again[1] = "ok"
                     /\ again[2]
                     /\ again[3].availability = availability

(* getStats has returned an availability of 0 over a window that holds a   *)
(* record with available = None beside one with available = False.         *)
RatioOverMixedWindow ==
    /\ returned # <<>>
    /\ returned.method = "getStats"
    /\ returned.value[1] = "ok"
    /\ returned.value[2]
    /\ returned.value[3].availability = <<0, 1>>
    /\ WithAvailable(returned, None) # {}

(* Every record of the window of the call has no response time, and one   *)
(* of them at least has an availability.                                   *)
NoResponseTime(call) ==
    /\ \A j \in InWindow(call) : store[call.URL][j].responseTime = None
    /\ \E j \in InWindow(call) : store[call.URL][j].available # None

(* C13: over a window whose records all lack the response time and of      *)
(* which one at least has an availability, getStats does not fault: it     *)
(* finds the data, minRT, avgRT and maxRT are all float('inf'), and the    *)
(* availability is a quotient with a denominator that is not 0.            *)
UnboundedWhenNoResponseTime ==
    (returned # <<>> /\ returned.method = "getStats" /\ NoResponseTime(returned)) =>
        /\ returned.value[1] = "ok"
        /\ returned.value[2]
        /\ returned.value[3].minRT = <<1, 0>>
        /\ returned.value[3].avgRT = <<1, 0>>
        /\ returned.value[3].maxRT = <<1, 0>>
        /\ returned.value[3].availability[2] > 0

(* getStats has returned the statistics of a window of two records without *)
(* response time, one of them without availability either.                 *)
StatsWithoutResponseTime ==
    /\ returned # <<>>
    /\ returned.method = "getStats"
    /\ NoResponseTime(returned)
    /\ Cardinality(InWindow(returned)) = 2
    /\ WithAvailable(returned, None) # {}
    /\ returned.value[1] = "ok"
    /\ returned.value[2]

SameAvailability ==
    [][(/\ returned # <<>>
        /\ returned.method = "checkAlert"
        /\ returned.availability # None
        /\ returned'.method = "getStats"
        /\ returned'.minutes = 2
        /\ returned'.URL = returned.URL
        /\ returned'.value[1] = "ok"
        /\ returned'.value[2]) =>
            returned'.value[3].availability = returned.availability[1]]_vars

-----------------------------------------------------------------------------
(* Liveness of the timers *)

(* C7: a fault or a slow call in a firing does not stop a task: once run() *)
(* has armed them, the report task and the probe task of every configured  *)
(* website always have a Timer pending, and each of them fires again and   *)
(* again.                                                                  *)
TasksKeepFiring ==
    /\ [](started => /\ reportTimer # None
                     /\ \A j \in 1..Len(order) : probes[order[j]].armed > 0)
    /\ []<><<printResults>>_vars
    /\ \A w \in Websites : []<><<GetResults(w)>>_vars \/ [](probes[w].armed = 0)

(* A report firing has died of an exception and the next one is armed. *)
ArmedAfterFault ==
    /\ \E k \in 1..Len(reports) : reports[k].pc = "fault"
    /\ reportTimer # None

====
